---- MODULE Spec2Model ----
(***************************************************************************)
(* Model of Software/TextToWavVIPFileCLI_2.py: a numbered BASIC listing is  *)
(* tokenised into a program block (Create_BinData) and the block is         *)
(* written as square-wave pulses (Encode_Data, Write_Wav).                  *)
(*                                                                         *)
(* Python strings are sequences of one-character strings; a hex string or   *)
(* a binary string is a sequence of digit characters, exactly as the code   *)
(* carries it.  A bytearray of pulses is a sequence of runs                 *)
(* [pulse, reps]; a pulse is [n, lo, hi]: n samples at lo, then n at hi.    *)
(***************************************************************************)
EXTENDS Integers, Sequences, FiniteSets, TLC

VARIABLES
    pc,          \* position of the script
    file,        \* text_segment: the lines of the source file
    answers,     \* what the user types at the prompts
    ZERO_FREQ, ONES_FREQ, FRAMERATE, AMPLITUDE, LEADER, STARTBIT, BLANKS,
    one_pulse, zero_pulse,
    i,           \* Create_BinData: index of the line loop
    code_array,  \* Create_BinData: bytes of the accepted lines so far
    Binary_Data, \* result of Create_BinData
    k,           \* Write_Wav: number of elements of Binary_Data written
    w            \* Write_Wav: the chunks handed to writeframes, in order

vars == <<pc, file, answers, ZERO_FREQ, ONES_FREQ, FRAMERATE, AMPLITUDE,
          LEADER, STARTBIT, BLANKS, one_pulse, zero_pulse, i, code_array,
          Binary_Data, k, w>>

----------------------------------------------------------------------------
(* Characters *)

CENTER == 128

\* the printable ASCII characters, code points 32..126, in order (the
\* quote characters and the backslash are written by name)
Printable ==
    <<" ", "!", "QUOTE", "#", "$", "%", "&", "APOSTROPHE", "(", ")", "*", "+", ",", "-",
      ".", "/", "0", "1", "2", "3", "4", "5", "6", "7", "8", "9", ":", ";",
      "<", "=", ">", "?", "@", "A", "B", "C", "D", "E", "F", "G", "H", "I",
      "J", "K", "L", "M", "N", "O", "P", "Q", "R", "S", "T", "U", "V", "W",
      "X", "Y", "Z", "[", "BACKSLASH", "]", "^", "_", "BACKQUOTE", "a", "b", "c", "d", "e",
      "f", "g", "h", "i", "j", "k", "l", "m", "n", "o", "p", "q", "r", "s",
      "t", "u", "v", "w", "x", "y", "z", "{", "|", "}", "~">>

Chars == {Printable[j] : j \in 1..Len(Printable)} \cup {"\t", "\r"}

\* ord(c)
ord ==
    [c \in Chars |->
        IF c = "\t" THEN 9
        ELSE IF c = "\r" THEN 13
        ELSE 31 + (CHOOSE j \in 1..Len(Printable) : Printable[j] = c)]

\* str.upper() on one character
upper ==
    [c \in Chars |->
        IF ord[c] >= 97 /\ ord[c] <= 122 THEN Printable[ord[c] - 32 - 31]
        ELSE c]

\* str.upper() left out: the text as it is
Upper_m(text) == text

\* str.upper()
Upper(text) == [j \in 1..Len(text) |-> upper[text[j]]]

\* the characters \s and str.lstrip() treat as whitespace
IsSpace(c) == ord[c] \in {9, 10, 11, 12, 13, 28, 29, 30, 31, 32}

\* the characters \d matches
IsDigit(c) == ord[c] >= 48 /\ ord[c] <= 57

HexChars == <<"0", "1", "2", "3", "4", "5", "6", "7", "8", "9",
              "A", "B", "C", "D", "E", "F">>

HexVal(c) == (CHOOSE j \in 1..16 : HexChars[j] = c) - 1

\* str.zfill(pad)
zfill(s, pad) ==
    IF Len(s) >= pad THEN s ELSE [j \in 1..(pad - Len(s)) |-> "0"] \o s

RECURSIVE HexDigits(_)
\* hex(var)[2:].upper()
HexDigits(var) ==
    IF var < 16 THEN <<HexChars[var + 1]>>
    ELSE HexDigits(var \div 16) \o <<HexChars[(var % 16) + 1]>>

\* integer_to_hex(var, pad)
integer_to_hex(var, pad) == zfill(HexDigits(var), pad)

\* string_to_hex(var)
string_to_hex(var) == integer_to_hex(ord[var], 2)

RECURSIVE ParseInt(_, _)
\* int(s, base) for a string of digits
ParseInt(s, base) ==
    IF s = <<>> THEN 0
    ELSE ParseInt(SubSeq(s, 1, Len(s) - 1), base) * base + HexVal(s[Len(s)])

RECURSIVE BinDigits(_)
\* bin(v)[2:]
BinDigits(v) ==
    IF v < 2 THEN <<HexChars[v + 1]>>
    ELSE BinDigits(v \div 2) \o <<HexChars[(v % 2) + 1]>>

\* hex_to_binary, one element: bin(int(hex_digit, 16))[2:].zfill(pad)
hex_to_binary_one(hex_digit, pad) == zfill(BinDigits(ParseInt(hex_digit, 16)), pad)

\* hex_to_binary(hex_array, pad)
hex_to_binary(hex_array, pad) ==
    [j \in 1..Len(hex_array) |-> hex_to_binary_one(hex_array[j], pad)]

RECURSIVE Join(_, _, _)
\* ' '.join(arr[lo..hi]) (balanced, so long arrays do not nest deeply)
Join(arr, lo, hi) ==
    IF lo > hi THEN <<>>
    ELSE IF lo = hi THEN arr[lo]
    ELSE LET mid == (lo + hi) \div 2
         IN  Join(arr, lo, mid) \o <<" ">> \o Join(arr, mid + 1, hi)

\* ' '.join(arr)
join(arr) == Join(arr, 1, Len(arr))

\* what an operator yields when the code raises ValueError
ValueError == <<"ValueError">>

\* get_basic_size(hex_string, 1, offset, pad); bytes.fromhex raises
\* ValueError on an odd number of hex digits
get_basic_size(hex_string, offset, pad) ==
    LET stripped == SelectSeq(hex_string, LAMBDA c : c # " ")
    IN  IF Len(stripped) % 2 = 1 THEN ValueError
        ELSE integer_to_hex((Len(stripped) \div 2) + offset, pad)

----------------------------------------------------------------------------
(* The mnemonic table *)

mnemonic_index ==
    (<<"?">> :> <<"8", "8">>) @@
    (<<"A", "B", "S">> :> <<"9", "C">>) @@
    (<<"C", "L", "S">> :> <<"9", "C">>) @@
    (<<"C", "O", "L", "O", "R">> :> <<"A", "4">>) @@
    (<<"E", "N", "D">> :> <<"9", "4">>) @@
    (<<"G", "O", "K", "E", "Y">> :> <<"8", "4">>) @@
    (<<"G", "O", "S", "U", "B">> :> <<"8", "2">>) @@
    (<<"G", "O", "T", "O">> :> <<"8", "0">>) @@
    (<<"H", "I", "T">> :> <<"9", "4">>) @@
    (<<"I", "F">> :> <<"8", "6">>) @@
    (<<"I", "N", "P", "U", "T">> :> <<"9", "6">>) @@
    (<<"K", "E", "Y">> :> <<"8", "E">>) @@
    (<<"L", "E", "T">> :> <<"9", "0">>) @@
    (<<"L", "I", "S", "T">> :> <<"9", "E">>) @@
    (<<"L", "O", "A", "D">> :> <<"A", "0">>) @@
    (<<"M", "E", "M">> :> <<"8", "0">>) @@
    (<<"N", "E", "W">> :> <<"9", "2">>) @@
    (<<"P", "R", "I", "N", "T">> :> <<"8", "8">>) @@
    (<<"R", "E", "M">> :> <<"8", "C">>) @@
    (<<"R", "E", "T", "U", "R", "N">> :> <<"8", "E">>) @@
    (<<"R", "N", "D">> :> <<"9", "8">>) @@
    (<<"R", "U", "N">> :> <<"8", "A">>) @@
    (<<"S", "A", "V", "E">> :> <<"9", "8">>) @@
    (<<"S", "H", "O", "W">> :> <<"9", "A">>) @@
    (<<"T", "I">> :> <<"8", "A">>) @@
    (<<"T", "V", "O", "F", "F">> :> <<"A", "6">>) @@
    (<<"T", "V", "O", "N">> :> <<"A", "2">>)

----------------------------------------------------------------------------
(* Create_BinData, one line *)

\* the length of the longest prefix of s whose characters are all in set
Prefix(s, set) ==
    LET stop == {j \in 1..Len(s) : s[j] \notin set}
    IN  IF stop = {} THEN Len(s)
        ELSE (CHOOSE j \in stop : \A x \in stop : j <= x) - 1

\* str.lstrip()
LStrip(s) == SubSeq(s, Prefix(s, {c \in Chars : IsSpace(c)}) + 1, Len(s))

\* length of the leading run of \d characters
DigitRun(s) == Prefix(s, {c \in Chars : IsDigit(c)})

\* Extract_Number_String(text): match is FALSE, and the label None, when no
\* number leads the line
Extract_Number_String(text) ==
    LET t == Upper(text)
        d == DigitRun(t)
    IN  IF d > 0
        THEN [match |-> TRUE, label |-> ParseInt(SubSeq(t, 1, d), 10),
              code  |-> LStrip(SubSeq(t, d + 1, Len(t)))]
        ELSE [match |-> FALSE, label |-> 0, code |-> t]

\* length of the leading run of characters of s that are (sp = TRUE) or are
\* not (sp = FALSE) whitespace
Run(s, sp) == Prefix(s, {c \in Chars : IsSpace(c) = sp})

RECURSIVE re_split(_)
\* re.split(r'(\s+)', code): a word (possibly empty), then each whitespace
\* run followed by the next word (possibly empty)
re_split(code) ==
    LET n    == Run(code, FALSE)
        rest == SubSeq(code, n + 1, Len(code))
        m    == Run(rest, TRUE)
    IN  IF rest = <<>> THEN <<SubSeq(code, 1, n)>>
        ELSE <<SubSeq(code, 1, n), SubSeq(rest, 1, m)>>
             \o re_split(SubSeq(rest, m + 1, Len(rest)))

\* code_segment = re.split(r'(\s+)', code); code_segment.extend('\r')
code_segment(code) == re_split(code) \o <<(<<"\r">>)>>

\* the test without the nospc flag: every space of the second word
IgnoreLetter_m(index, letter, nospc) ==
    index = 1 /\ ord[letter] = 32

\* the test that elides a character: "ignore first space after a mapped
\* mnemonic"
IgnoreLetter(index, letter, nospc) ==
    index = 1 /\ ord[letter] = 32 /\ nospc = 1

\* one pass of `for letter in word`; st = [hex, nospc, size]
Letter(index, letter, st) ==
    IF IgnoreLetter(index, letter, st.nospc)
    THEN [st EXCEPT !.nospc = 0]
    ELSE [st EXCEPT !.hex = Append(@, string_to_hex(letter))]

RECURSIVE LetterLoop(_, _, _, _)
\* for letter in word, from position j on
LetterLoop(word, index, j, st) ==
    IF j > Len(word) THEN st
    ELSE LetterLoop(word, index, j + 1, Letter(index, word[j], st))

\* the size without the offset of 1
line_size_m(hex) == get_basic_size(join(hex), 0, 2)

\* basic_line_hex = get_basic_size(' '.join(code_segment_hex), 1, 1)
line_size(hex) == get_basic_size(join(hex), 1, 2)

\* the test that swizzles a word into its table code
IsMnemonic(word) == word \in DOMAIN mnemonic_index

RECURSIVE WordLoop(_, _, _)
\* for index, word in enumerate(code_segment), from index on (0-based);
\* size is basic_line_hex, set after every word that is not a mnemonic
WordLoop(segment, index, st) ==
    IF index >= Len(segment) THEN st
    ELSE LET word == segment[index + 1]
         IN  IF IsMnemonic(word)
             THEN WordLoop(segment, index + 1,
                    [st EXCEPT !.nospc = IF index = 0 THEN 1 ELSE @,
                               !.hex = Append(@, mnemonic_index[word])])
             ELSE LET s2 == LetterLoop(word, index, 1, st)
                  IN  WordLoop(segment, index + 1,
                        [s2 EXCEPT !.size = line_size(s2.hex)])

\* the inner loop of Create_BinData for one code body
LineLoop(code) ==
    WordLoop(code_segment(code), 0, [hex |-> <<>>, nospc |-> 0, size |-> <<>>])

\* code_segment_hex after the loop
code_segment_hex(code) == LineLoop(code).hex

\* basic_line_hex after the loop
basic_line_hex(code) == LineLoop(code).size

\* temp_array: label_hex1, label_hex2, basic_line_hex, then the code bytes
temp_array(label, code) ==
    LET hex_string == integer_to_hex(label, 4)
    IN  <<SubSeq(hex_string, 1, 2), SubSeq(hex_string, 3, Len(hex_string)),
          basic_line_hex(code)>> \o code_segment_hex(code)

\* the new bytes in front of the array instead of behind it
extend_m(array, more) == more \o array

\* code_array.extend(temp_array)
extend(array, more) == array \o more

----------------------------------------------------------------------------
(* Create_BinData, the block *)

\* is the line accepted (label is neither None nor '')
Accepted(text) == Extract_Number_String(text).match

\* the bytes one accepted line adds to code_array
LineBytes(text) ==
    LET e == Extract_Number_String(text)
    IN  temp_array(e.label, e.code)

\* the size with an offset of 8: the checksum bytes not counted
basic_size_hex_m(array) == get_basic_size(join(array), 8, 4)

\* basic_size_hex: the byte count of code_array plus 10, as 4 hex digits
basic_size_hex(array) == get_basic_size(join(array), 10, 4)

\* final_hex_array before the checksum: the two halves of the size, six
\* zero bytes, then code_array
final_hex_array(array) ==
    LET size == basic_size_hex(array)
    IN  <<SubSeq(size, 1, 2), SubSeq(size, 3, Len(size))>>
        \o [j \in 1..6 |-> integer_to_hex(0, 2)]
        \o array

RECURSIVE Sum(_, _, _)
\* the sum of int(arr[j], 16) for j in lo..hi (balanced)
Sum(arr, lo, hi) ==
    IF lo > hi THEN 0
    ELSE IF lo = hi THEN ParseInt(arr[lo], 16)
    ELSE LET mid == (lo + hi) \div 2
         IN  Sum(arr, lo, mid) + Sum(arr, mid + 1, hi)

\* total_sum over final_hex_array
total_sum(arr) == Sum(arr, 1, Len(arr))

\* total_hex = integer_to_hex(total_sum, 4)
total_hex(sum) == integer_to_hex(sum, 4)

\* the two inserts at position 0: total_hex[:2], then total_hex[2:]
insert_total(arr) ==
    LET t == total_hex(total_sum(arr))
    IN  <<SubSeq(t, 1, 2), SubSeq(t, 3, Len(t))>> \o arr

\* what Create_BinData returns for code_array, or "ValueError"
binary_array(array) ==
    IF basic_size_hex(array) = ValueError THEN ValueError
    ELSE hex_to_binary(insert_total(final_hex_array(array)), 8)

----------------------------------------------------------------------------
(* Pulses *)

\* make_square_wave(freq, framerate): n = int(framerate/freq/2) samples at
\* CENTER-AMPLITUDE//2, then n at CENTER+AMPLITUDE//2
make_square_wave(freq, framerate) ==
    [n  |-> framerate \div (freq * 2),
     lo |-> CENTER - (AMPLITUDE \div 2),
     hi |-> CENTER + (AMPLITUDE \div 2)]

\* len(pulse)
len(pulse) == 2 * pulse.n

\* bytearray(pulse)
bytearray(pulse) == <<[pulse |-> pulse, reps |-> 1]>>

\* pulse * count
times(pulse, count) ==
    IF count = 0 THEN <<>> ELSE <<[pulse |-> pulse, reps |-> count]>>

\* the test inverted
is_even_m(number) == number % 2 = 1

\* is_even(number)
is_even(number) == number % 2 = 0

\* bytes[::-1]
reversed(bytes) == [j \in 1..Len(bytes) |-> bytes[Len(bytes) + 1 - j]]

\* the start pulse
start_pulse(startbit) == IF startbit = 0 THEN zero_pulse ELSE one_pulse

\* the pulse of one data bit
bit_pulse(bit) == IF bit = "1" THEN one_pulse ELSE zero_pulse

\* p: the number of bits that are 1
ones(bytes) == Cardinality({j \in 1..Len(bytes) : bytes[j] = "1"})

\* the parity pulse for p ones
parity_pulse(p) == IF is_even(p) = FALSE THEN one_pulse ELSE zero_pulse

\* Encode_Data(bytes)
Encode_Data(bytes) ==
    LET r == reversed(bytes)
    IN  bytearray(start_pulse(STARTBIT))
        \o [j \in 1..Len(r) |-> [pulse |-> bit_pulse(r[j]), reps |-> 1]]
        \o bytearray(parity_pulse(ones(r)))

\* the leader rounded up to a whole pulse over all its seconds
leader_count_m(framerate, leader, pulse) ==
    ((framerate * leader) \div len(pulse)) + 1

\* the number of zero pulses in the leader
leader_count(framerate, leader, pulse) ==
    (framerate \div len(pulse)) * leader

\* the number of samples in a chunk
Samples(chunk) ==
    LET RECURSIVE S(_)
        S(j) == IF j = 0 THEN 0
                ELSE S(j - 1) + chunk[j].reps * len(chunk[j].pulse)
    IN  S(Len(chunk))

----------------------------------------------------------------------------
(* Inputs *)

MaxLines == 2
MaxLongLines == 13
MaxPieces == 4

\* the choices the prompts accept
Frequencies == {300, 500, 600, 800, 1000, 1200, 2000, 2400, 4800, 9600}

FrameRates == {4800, 9600, 11025, 22050, 44100, 48000}

\* the answers of a user who accepts every default
Defaults ==
    [ZERO_FREQ |-> 2000, ONES_FREQ |-> 800, FRAMERATE |-> 22050,
     AMPLITUDE |-> 225, LEADER |-> 8, STARTBIT |-> 1, BLANKS |-> 25]

RECURSIVE SeqsUpTo(_, _)
\* the sequences over S of length at most n
SeqsUpTo(S, n) ==
    IF n = 0 THEN {<<>>}
    ELSE LET shorter == SeqsUpTo(S, n - 1)
         IN  shorter \cup {Append(s, x) : s \in shorter, x \in S}

RECURSIVE Concat(_)
\* the pieces of ps, one after the other
Concat(ps) == IF ps = <<>> THEN <<>> ELSE Head(ps) \o Concat(Tail(ps))

RECURSIVE DecStr(_)
\* str(v)
DecStr(v) ==
    IF v < 10 THEN <<HexChars[v + 1]>>
    ELSE DecStr(v \div 10) \o <<HexChars[(v % 10) + 1]>>

\* lines of small programs: `10 END`, `20 GOTO 10`, `10 PRINT 1`, a line
\* without a number, an empty line, and two lines whose label does not fit
\* 16 bits (1048576 = 0x100000, 65536 = 0x10000)
Lines ==
    { <<"1", "0", " ", "E", "N", "D">>,
      <<"2", "0", " ", "G", "O", "T", "O", " ", "1", "0">>,
      <<"1", "0", " ", "P", "R", "I", "N", "T", " ", "1">>,
      <<"r", "e", "m", " ", "x">>,
      <<>>,
      <<"1", "0", "4", "8", "5", "7", "6", " ", "?">>,
      <<"6", "5", "5", "3", "6">> }

\* a full line: label 99 and 40 tildes
LongLine == <<"9", "9">> \o [j \in 1..40 |-> "~"]

\* text_segment is never empty: ''.split('\n') is ['']
Files ==
    (SeqsUpTo(Lines, MaxLines) \ {<<>>})
    \cup {[j \in 1..n |-> LongLine] : n \in 1..MaxLongLines}

Answers == {[Defaults EXCEPT !.STARTBIT = b] : b \in {0, 1}}

\* one-line files: label 10, then up to MaxPieces pieces
Pieces ==
    { <<"E", "N", "D">>, <<"p", "r", "i", "n", "t">>, <<"?">>, <<"S">>,
      <<" ">>, <<"\t">> }

FilesTok ==
    {<<(<<"1", "0">> \o Concat(ps))>> : ps \in SeqsUpTo(Pieces, MaxPieces)}

\* one-line files whose label puts the byte b in both label fields
FilesEnc == {<<DecStr(257 * b)>> : b \in 0..255}

\* the waveform parameters a user can choose
AnswersWav ==
    {[Defaults EXCEPT !.ZERO_FREQ = z, !.FRAMERATE = f, !.LEADER = l] :
        z \in Frequencies, f \in FrameRates, l \in 0..60}
    \cup
    {[Defaults EXCEPT !.ONES_FREQ = o, !.AMPLITUDE = a, !.BLANKS = b] :
        o \in Frequencies, a \in {0, 1, 128, 225, 255}, b \in {0, 1, 25, 300}}

----------------------------------------------------------------------------
(* The script *)

\* the state after the module is loaded (lines 44-52, 100-101): the pulses
\* are made here, from the values the globals have at this point
Loaded ==
    /\ pc = "prompt"
    /\ FRAMERATE = 22050
    /\ ONES_FREQ = 800
    /\ ZERO_FREQ = 2000
    /\ AMPLITUDE = 225
    /\ LEADER = 8
    /\ STARTBIT = 1
    /\ BLANKS = 25
    /\ one_pulse = make_square_wave(ONES_FREQ, FRAMERATE)
    /\ zero_pulse = make_square_wave(ZERO_FREQ, FRAMERATE)
    /\ i = 0
    /\ code_array = <<>>
    /\ Binary_Data = <<>>
    /\ k = 0
    /\ w = <<>>

Init == file \in Files /\ answers \in Answers /\ Loaded

InitTok == file \in FilesTok /\ answers = Defaults /\ Loaded

InitEnc == file \in FilesEnc /\ answers \in Answers /\ Loaded

InitWav == file = <<(<<"1", "0", " ", "E", "N", "D">>)>> /\ answers \in AnswersWav /\ Loaded

\* the prompts assign the globals; nothing remakes one_pulse and zero_pulse
Prompts ==
    /\ pc = "prompt"
    /\ ZERO_FREQ' = answers.ZERO_FREQ
    /\ ONES_FREQ' = answers.ONES_FREQ
    /\ FRAMERATE' = answers.FRAMERATE
    /\ AMPLITUDE' = answers.AMPLITUDE
    /\ LEADER' = answers.LEADER
    /\ STARTBIT' = answers.STARTBIT
    /\ BLANKS' = answers.BLANKS
    /\ pc' = "lines"
    /\ UNCHANGED <<file, answers, one_pulse, zero_pulse, i, code_array,
                   Binary_Data, k, w>>

\* Create_BinData: one pass of the loop over the lines
Create_BinData_Line ==
    /\ pc = "lines"
    /\ i < Len(file)
    /\ i' = i + 1
    /\ code_array' = IF Accepted(file[i + 1])
                     THEN extend(code_array, LineBytes(file[i + 1]))
                     ELSE code_array
    /\ UNCHANGED <<pc, file, answers, ZERO_FREQ, ONES_FREQ, FRAMERATE,
                   AMPLITUDE, LEADER, STARTBIT, BLANKS, one_pulse, zero_pulse,
                   Binary_Data, k, w>>

\* Create_BinData: header, checksum and return (or the ValueError of
\* bytes.fromhex, which ends the script)
Create_BinData_Block ==
    /\ pc = "lines"
    /\ i = Len(file)
    /\ IF basic_size_hex(code_array) = ValueError
       THEN pc' = "error" /\ Binary_Data' = Binary_Data
       ELSE pc' = "leader" /\ Binary_Data' = binary_array(code_array)
    /\ UNCHANGED <<file, answers, ZERO_FREQ, ONES_FREQ, FRAMERATE, AMPLITUDE,
                   LEADER, STARTBIT, BLANKS, one_pulse, zero_pulse, i,
                   code_array, k, w>>

\* Write_Wav: open the file and write the leader
Write_Wav_Leader ==
    /\ pc = "leader"
    /\ w' = <<times(zero_pulse, leader_count(FRAMERATE, LEADER, zero_pulse))>>
    /\ pc' = "data"
    /\ UNCHANGED <<file, answers, ZERO_FREQ, ONES_FREQ, FRAMERATE, AMPLITUDE,
                   LEADER, STARTBIT, BLANKS, one_pulse, zero_pulse, i,
                   code_array, Binary_Data, k>>

\* Write_Wav: encode and write the next element of Binary_Data
Write_Wav_Byte ==
    /\ pc = "data"
    /\ k < Len(Binary_Data)
    /\ w' = Append(w, Encode_Data(Binary_Data[k + 1]))
    /\ k' = k + 1
    /\ UNCHANGED <<pc, file, answers, ZERO_FREQ, ONES_FREQ, FRAMERATE,
                   AMPLITUDE, LEADER, STARTBIT, BLANKS, one_pulse, zero_pulse,
                   i, code_array, Binary_Data>>

\* Write_Wav: the terminating one pulses, then close
Write_Wav_Blanks ==
    /\ pc = "data"
    /\ k = Len(Binary_Data)
    /\ w' = w \o [x \in 1..BLANKS |-> bytearray(one_pulse)]
    /\ pc' = "closed"
    /\ UNCHANGED <<file, answers, ZERO_FREQ, ONES_FREQ, FRAMERATE, AMPLITUDE,
                   LEADER, STARTBIT, BLANKS, one_pulse, zero_pulse, i,
                   code_array, Binary_Data, k>>

Next ==
    \/ Prompts
    \/ Create_BinData_Line
    \/ Create_BinData_Block
    \/ Write_Wav_Leader
    \/ Write_Wav_Byte
    \/ Write_Wav_Blanks

Spec == Init /\ [][Next]_vars

SpecTok == InitTok /\ [][Next]_vars

SpecEnc == InitEnc /\ [][Next]_vars

SpecWav == InitWav /\ [][Next]_vars

----------------------------------------------------------------------------
(* Reading the results *)

\* Create_BinData has just returned its block (nothing changes it later)
Created == pc = "leader"

\* the value of an element of Binary_Data
Val(bits) == ParseInt(bits, 2)

\* the 16-bit value two consecutive elements of Binary_Data encode, high first
Word16(j) == 256 * Val(Binary_Data[j]) + Val(Binary_Data[j + 1])

RECURSIVE SumVal(_, _)
\* the sum of the values of Binary_Data[lo..hi]
SumVal(lo, hi) ==
    IF lo > hi THEN 0
    ELSE IF lo = hi THEN Val(Binary_Data[lo])
    ELSE LET mid == (lo + hi) \div 2
         IN  SumVal(lo, mid) + SumVal(mid + 1, hi)

\* the line begins with a decimal digit
Numbered(text) == text # <<>> /\ text[1] \in {"0", "1", "2", "3", "4", "5", "6", "7", "8", "9"}

\* every label of the file fits 16 bits and every line_length fits one byte
FieldsFit ==
    \A j \in 1..Len(file) :
        Numbered(file[j]) =>
            LET e == Extract_Number_String(file[j])
            IN  e.label <= 65535 /\ Len(code_segment_hex(e.code)) <= 254

\* the two hex digits of a byte value
ByteHex(v) == <<HexChars[(v \div 16) + 1], HexChars[(v % 16) + 1]>>

\* the code body of a numbered line: what follows the digits, without the
\* whitespace before its first word
Body(text) ==
    LET d    == Prefix(text, {"0", "1", "2", "3", "4", "5", "6", "7", "8", "9"})
        rest == SubSeq(text, d + 1, Len(text))
        sp   == Prefix(rest, {" ", "\t"})
    IN  SubSeq(rest, sp + 1, Len(rest))

RECURSIVE Segs(_)
\* the body cut into maximal runs of blanks and of other characters
Segs(s) ==
    IF s = <<>> THEN <<>>
    ELSE LET blank == s[1] \in {" ", "\t"}
             n     == Prefix(s, IF blank THEN {" ", "\t"} ELSE Chars \ {" ", "\t"})
         IN  <<SubSeq(s, 1, n)>> \o Segs(SubSeq(s, n + 1, Len(s)))

\* a run in capitals
Capitals(seg) == [j \in 1..Len(seg) |-> upper[seg[j]]]

\* is the run a keyword of the table, whatever its case
IsKey(seg) == Capitals(seg) \in DOMAIN mnemonic_index

\* the bytes of a run: the table code of a keyword, else one byte per character
SegBytes(seg) ==
    IF IsKey(seg) THEN <<mnemonic_index[Capitals(seg)]>>
    ELSE [j \in 1..Len(seg) |-> ByteHex(ord[Capitals(seg)[j]])]

\* the code bytes of the first line, as Create_BinData put them in code_array
CodeBytes == SubSeq(code_array, 4, Len(code_array))

\* the first line has been tokenised
FirstLineDone == i >= 1 /\ Numbered(file[1]) /\ Len(code_array) >= 4

\* a run without the character at position j
Without(seg, j) == SubSeq(seg, 1, j - 1) \o SubSeq(seg, j + 1, Len(seg))

\* the position of the first space of a run, 0 if it has none
FirstSpace(seg) == LET n == Prefix(seg, Chars \ {" "})
                   IN  IF n = Len(seg) THEN 0 ELSE n + 1

\* the bytes of the runs, then the carriage return
AllBytes(segs) == Concat([j \in 1..Len(segs) |-> SegBytes(segs[j])]) \o <<ByteHex(13)>>

\* the sample count of the leader chunk
LeaderSamples == Samples(w[1])

\* the pulse the configuration asks for at a frequency
Configured(freq) ==
    [n  |-> (FRAMERATE \div freq) \div 2,
     lo |-> CENTER - (AMPLITUDE \div 2),
     hi |-> CENTER + (AMPLITUDE \div 2)]

\* the frames written so far are w[2..k+1]; frame j carries Binary_Data[j-1]
Frames == 2..(k + 1)

----------------------------------------------------------------------------
(* Claims *)

\* C1, as stated: the block has two elements more than the value of its
\* total-length field (elements 3 and 4, counting from 1)
C1_LengthPlusTwo ==
    Created => Len(Binary_Data) = Word16(3) + 2

\* C1, amended: when every label and line_length fits its field, the block
\* has exactly as many elements as its total-length field says, the two
\* checksum elements included
C1_LengthCountsChecksum ==
    (Created /\ FieldsFit) => Len(Binary_Data) = Word16(3)

\* C1 witness: the 15-element block of `10 END`, whose length field is 15
C1_Witness ==
    /\ Created
    /\ file = <<(<<"1", "0", " ", "E", "N", "D">>)>>
    /\ Len(Binary_Data) = 15
    /\ Word16(3) = 15

\* C2: the elements after the first two sum, modulo 65536, to the 16-bit
\* value the first two elements encode
C2_Checksum ==
    Created => SumVal(3, Len(Binary_Data)) % 65536 = Word16(1)

\* C3, as stated: the line_length element equals the number of code bytes
\* including the carriage return, and `10 END` gives 00 0A 02 94 0D
C3_LineLengthIsCount ==
    FirstLineDone =>
        /\ ParseInt(code_array[3], 16) = Len(CodeBytes)
        /\ file[1] = <<"1", "0", " ", "E", "N", "D">> =>
              code_array = <<ByteHex(0), ByteHex(10), ByteHex(2), ByteHex(148), ByteHex(13)>>

\* C3, amended: the line_length element equals the number of code bytes
\* including the carriage return, plus one, and `10 END` gives
\* 00 0A 03 94 0D
C3_LineLengthIsCountPlusOne ==
    FirstLineDone =>
        /\ CodeBytes[Len(CodeBytes)] = ByteHex(13)
        /\ ParseInt(code_array[3], 16) = Len(CodeBytes) + 1
        /\ file[1] = <<"1", "0", " ", "E", "N", "D">> =>
              code_array = <<ByteHex(0), ByteHex(10), ByteHex(3), ByteHex(148), ByteHex(13)>>

\* C3 witness: `10 END` has been tokenised into 00 0A 03 94 0D
C3_Witness ==
    /\ i = 1
    /\ file[1] = <<"1", "0", " ", "E", "N", "D">>
    /\ code_array = <<ByteHex(0), ByteHex(10), ByteHex(3), ByteHex(148), ByteHex(13)>>

\* C4: after the prompts, the leader pulses and the pulses of the 0 bits are
\* the pulse configured for ZERO_FREQ, the pulses of the 1 bits the pulse
\* configured for ONES_FREQ, with the configured frame rate and amplitude
C4_ConfiguredPulses ==
    /\ Len(w) >= 1 =>
          \A m \in 1..Len(w[1]) : w[1][m].pulse = Configured(ZERO_FREQ)
    /\ \A j \in Frames :
          LET bits == Binary_Data[j - 1]
          IN  \A m \in 1..Len(bits) :
                 w[j][m + 1].pulse =
                     IF bits[Len(bits) + 1 - m] = "1"
                     THEN Configured(ONES_FREQ)
                     ELSE Configured(ZERO_FREQ)

\* C5, as stated: the leader differs from LEADER * FRAMERATE samples by less
\* than the length of one zero pulse
C5_LeaderWithinOnePulse ==
    Len(w) >= 1 =>
        /\ LEADER * FRAMERATE - LeaderSamples < len(zero_pulse)
        /\ LeaderSamples - LEADER * FRAMERATE < len(zero_pulse)

\* C5, amended: the leader is never longer than LEADER * FRAMERATE samples
\* and is shorter by less than one zero pulse for each second of leader
C5_LeaderWithinOnePulsePerSecond ==
    Len(w) >= 1 =>
        /\ LeaderSamples <= LEADER * FRAMERATE
        /\ LEADER * FRAMERATE - LeaderSamples <= LEADER * (len(zero_pulse) - 1)
        /\ LeaderSamples % len(zero_pulse) = 0

\* C5 witness: 2 seconds at 11025 Hz are written as 22040 samples
C5_Witness ==
    /\ Len(w) >= 1
    /\ FRAMERATE = 11025
    /\ LEADER = 2
    /\ LeaderSamples = 22040

\* C6: in the code bytes of a line, leaving the blanks aside, every word
\* that is a table keyword in any case appears as its table code and every
\* other word as one byte per character
C6_WholeWordMnemonics ==
    FirstLineDone =>
        LET segs  == Segs(Body(file[1]))
            words == SelectSeq(segs, LAMBDA g : g[1] \notin {" ", "\t"})
        IN  SelectSeq(CodeBytes, LAMBDA b : b \notin {ByteHex(32), ByteHex(9)})
                = AllBytes(words)

\* C6 witness: `10 print` has become 88 0D, and the word PRINTS of
\* `10 prints` is spelled out
C6_Witness ==
    /\ i = 1
    /\ \/ /\ file[1] = <<"1", "0", " ", "p", "r", "i", "n", "t">>
          /\ CodeBytes = <<ByteHex(136), ByteHex(13)>>
       \/ /\ file[1] = <<"1", "0", " ", "p", "r", "i", "n", "t", "S">>
          /\ Len(CodeBytes) = 7

\* C7: in the frame of every 8-bit element the one pulses among the 8 data
\* pulses and the parity pulse are even in number, the parity pulse being a
\* one pulse exactly when the element has an odd number of 1 bits
C7_EvenParity ==
    \A j \in Frames :
        LET bits  == Binary_Data[j - 1]
            frame == w[j]
            odd   == Cardinality({m \in 1..8 : bits[m] = "1"}) % 2 = 1
        IN  Len(bits) = 8 =>
              /\ Len(frame) = 10
              /\ Cardinality({m \in 2..10 : frame[m].pulse = one_pulse}) % 2 = 0
              /\ frame[10].pulse = IF odd THEN one_pulse ELSE zero_pulse

\* C7 witness: the element 11111110 (7 ones) has been written with a one
\* pulse for parity, with either start bit
C7_Witness ==
    /\ k >= 11
    /\ Binary_Data[11] = <<"1", "1", "1", "1", "1", "1", "1", "0">>
    /\ w[12][10].pulse = one_pulse
    /\ STARTBIT = 0

\* C8: after the 10 header elements the block is the token streams of the
\* lines that begin with a digit, in file order; the other lines add
\* nothing and raise nothing
C8_FileOrder ==
    LET numbered == SelectSeq(file, Numbered)
        streams  == Concat([j \in 1..Len(numbered) |-> LineBytes(numbered[j])])
    IN  /\ Created =>
              /\ Len(Binary_Data) = 10 + Len(streams)
              /\ \A j \in 1..Len(streams) :
                    Val(Binary_Data[10 + j]) = ParseInt(streams[j], 16)
        /\ numbered = <<>> => pc # "error"

\* C8 witness: `20 GOTO 10` then `10 PRINT 1` gives a block whose first
\* label is 20 and whose second is 10
C8_Witness ==
    /\ Created
    /\ file = << <<"2", "0", " ", "G", "O", "T", "O", " ", "1", "0">>,
                 <<"1", "0", " ", "P", "R", "I", "N", "T", " ", "1">> >>
    /\ Word16(11) = 20
    /\ Word16(18) = 10
    /\ Len(Binary_Data) = 23

\* C9: every frame written has 10 pulses: the start pulse, the 8 bits of
\* the element last bit first, and the parity pulse
C9_TenPulses ==
    \A j \in Frames :
        LET bits  == Binary_Data[j - 1]
            frame == w[j]
        IN  /\ Len(frame) = 10
            /\ frame[1].pulse = IF STARTBIT = 1 THEN one_pulse ELSE zero_pulse
            /\ \A m \in 1..8 :
                  frame[m + 1].pulse =
                      IF bits[9 - m] = "1" THEN one_pulse ELSE zero_pulse

\* C10, as stated: the only character left out is a space that comes right
\* after a keyword that is the first word of the line
C10_SpaceRightAfterKeyword ==
    FirstLineDone =>
        LET segs == Segs(Body(file[1]))
        IN  CodeBytes =
              IF Len(segs) >= 2 /\ IsKey(segs[1]) /\ segs[2][1] = " "
              THEN AllBytes([segs EXCEPT ![2] = Without(@, 1)])
              ELSE AllBytes(segs)

\* C10, amended: the only character left out is the first space of the run
\* of blanks that follows a keyword that is the first word of the line,
\* wherever in that run it stands
C10_FirstSpaceAfterKeyword ==
    FirstLineDone =>
        LET segs == Segs(Body(file[1]))
        IN  CodeBytes =
              IF Len(segs) >= 2 /\ IsKey(segs[1]) /\ FirstSpace(segs[2]) > 0
              THEN AllBytes([segs EXCEPT ![2] = Without(@, FirstSpace(@))])
              ELSE AllBytes(segs)

\* C10 witness: `10print<tab><space>` has become 88 09 0D: the space after
\* the tab is left out
C10_Witness ==
    /\ i = 1
    /\ file[1] = <<"1", "0", "p", "r", "i", "n", "t", "\t", " ">>
    /\ CodeBytes = <<ByteHex(136), ByteHex(9), ByteHex(13)>>

====
